---- MODULE Spec2Model ----
(***************************************************************************)
(* Food-facilities query service: transport (FastAPI endpoints),           *)
(* service (FoodFacilityService), repository (FoodFacilityRepository)      *)
(* and the SQLite table they read.                                         *)
(*                                                                         *)
(* Conventions of the model                                                *)
(*  - Optional[T] is a set with at most one element: None is {}, a present *)
(*    value v is {v}.  SQL NULL is None.                                   *)
(*  - A string is a sequence of characters, each character a one-token     *)
(*    string; "U+00C9" and "U+00E9" stand for the non-ASCII letters        *)
(*    E-acute (upper) and e-acute (lower).                                 *)
(*  - A float is a record [kind, n]: kind "num" with the value n in whole  *)
(*    degrees, or "nan", "inf", "-inf".                                    *)
(*  - A distance is [fin, km]: fin = FALSE is float('inf'); otherwise km   *)
(*    holds the distance in units of 1/1000 km.                            *)
(*  - A request is handled atomically in Spec and SpecHistory and step by  *)
(*    step, by concurrent workers, in SpecConcurrent.                      *)
(***************************************************************************)
EXTENDS Integers, Sequences, FiniteSets, TLC

VARIABLES
    table,      \* rows of food_facilities in storage order (read-only)
    dbState,    \* "ok" | "no_table" | "cannot_open": what the database file allows
    request,    \* the request handled last
    response,   \* what the handler of that request produced
    first,      \* history: the first nearest request observed and its response
    encoder,    \* how the installed JSON encoder treats a float that is not finite:
                \* "ValueError" (json.dumps(allow_nan=False)) | "null"
    workers,    \* SpecConcurrent: the state of every worker thread
    connections, \* SpecConcurrent: the sqlite3 connections, by handle
    dependency_overrides \* SpecConcurrent: the dependencies the application
                \* has an override for: {} or {"get_db"}

vars == <<table, dbState, request, response, first, encoder, workers, connections,
          dependency_overrides>>

-----------------------------------------------------------------------------
(* Optional values *)

None == {}
Some(v) == {v}
Get(o) == CHOOSE v \in o : TRUE

-----------------------------------------------------------------------------
(* Strings and case folding *)

AsciiLower ==
    "A" :> "a" @@ "B" :> "b" @@ "C" :> "c" @@ "D" :> "d" @@ "E" :> "e" @@
    "F" :> "f" @@ "G" :> "g" @@ "H" :> "h" @@ "I" :> "i" @@ "J" :> "j" @@
    "K" :> "k" @@ "L" :> "l" @@ "M" :> "m" @@ "N" :> "n" @@ "O" :> "o" @@
    "P" :> "p" @@ "Q" :> "q" @@ "R" :> "r" @@ "S" :> "s" @@ "T" :> "t" @@
    "U" :> "u" @@ "V" :> "v" @@ "W" :> "w" @@ "X" :> "x" @@ "Y" :> "y" @@
    "Z" :> "z"

UnicodeLower == AsciiLower @@ ("U+00C9" :> "U+00E9")

\* SQLite's LOWER(): folds ASCII letters only
SqlLower(s) ==
    [i \in 1..Len(s) |-> IF s[i] \in DOMAIN AsciiLower THEN AsciiLower[s[i]] ELSE s[i]]

\* Python's str.lower(): folds every cased letter
PyLower(s) ==
    [i \in 1..Len(s) |-> IF s[i] \in DOMAIN UnicodeLower THEN UnicodeLower[s[i]] ELSE s[i]]

APPROVED == <<"A", "P", "P", "R", "O", "V", "E", "D">>
approved == <<"a", "p", "p", "r", "o", "v", "e", "d">>
Approved == <<"A", "p", "p", "r", "o", "v", "e", "d">>
EXPIRED  == <<"E", "X", "P", "I", "R", "E", "D">>
expired  == <<"e", "x", "p", "i", "r", "e", "d">>
all_kw   == <<"a", "l", "l">>
ALL_kw   == <<"A", "L", "L">>
All_kw   == <<"A", "l", "l">>
EAcuteUp == <<"U+00C9">>
EAcuteLo == <<"U+00E9">>
EmptyStr == <<>>

-----------------------------------------------------------------------------
(* Floats and distances *)

Num(n) == [kind |-> "num", n |-> n]
NaN    == [kind |-> "nan", n |-> 0]
PosInf == [kind |-> "inf", n |-> 0]
NegInf == [kind |-> "-inf", n |-> 0]

Inf == [fin |-> FALSE, km |-> 0]
Fin(d) == [fin |-> TRUE, km |-> d]

\* a <= b on floats that are distances
DistLe(a, b) == (~b.fin) \/ (a.fin /\ a.km <= b.km)
DistLt(a, b) == a.fin /\ ((~b.fin) \/ a.km < b.km)

Abs(n) == IF n < 0 THEN -n ELSE n

-----------------------------------------------------------------------------
(* Distance Function (src/utils/geo.py) *)

\* kilometres per degree of longitude along the equator, in 1/1000 km
EquatorArc == 111319
MaxLatitude == 90

IsFinite(x) == x.kind = "num"

\* geopy's geodesic(point1, point2): raises ValueError for a coordinate that
\* is not finite or a latitude outside [-90, 90].  The model places every
\* valid point on the equator, where the geodesic is the equatorial arc.
geodesic(lat1, lon1, lat2, lon2) ==
    IF ~(IsFinite(lat1) /\ IsFinite(lon1) /\ IsFinite(lat2) /\ IsFinite(lon2))
    THEN [raised |-> TRUE, km |-> 0]
    ELSE IF Abs(lat1.n) > MaxLatitude \/ Abs(lat2.n) > MaxLatitude
    THEN [raised |-> TRUE, km |-> 0]
    ELSE CASE lat1.n = 0 /\ lat2.n = 0 ->
              [raised |-> FALSE, km |-> EquatorArc * Abs(lon1.n - lon2.n)]

\* only the first point is checked for None; a missing coordinate of the
\* second point counts as 0
calculate_distance_first_point(lat1, lon1, lat2, lon2) ==
    IF lat1 = None \/ lon1 = None
    THEN Inf
    ELSE LET g == geodesic(Get(lat1), Get(lon1),
                           IF lat2 = None THEN Num(0) ELSE Get(lat2),
                           IF lon2 = None THEN Num(0) ELSE Get(lon2))
         IN  IF g.raised THEN Inf ELSE Fin(g.km)

\* every argument is Optional[float]
calculate_distance(lat1, lon1, lat2, lon2) ==
    IF \E coord \in {lat1, lon1, lat2, lon2} : coord = None
    THEN Inf
    ELSE LET g == geodesic(Get(lat1), Get(lon1), Get(lat2), Get(lon2))
         IN  IF g.raised THEN Inf ELSE Fin(g.km)

-----------------------------------------------------------------------------
(* Records (src/models/schemas.py) *)

Row(id, applicant, address, status, lat, lon) ==
    [locationid |-> id, Applicant |-> applicant, Address |-> address,
     Status |-> status, Latitude |-> lat, Longitude |-> lon]

\* FoodFacilityBase(**row): Applicant is a required str, so a NULL Applicant
\* fails validation; every other modelled column is Optional
FoodFacilityBase_valid(row) == row.Applicant # None

\* [FoodFacilityBase(**row) for row in rows], rows being the outcome
\* [exc, rows] of the query; an exception of the query passes through
Materialize(fetched) ==
    IF fetched.exc # "none" THEN [exc |-> fetched.exc, value |-> <<>>]
    ELSE IF \E i \in 1..Len(fetched.rows) : ~FoodFacilityBase_valid(fetched.rows[i])
    THEN [exc |-> "ValidationError", value |-> <<>>]
    ELSE [exc |-> "none", value |-> fetched.rows]

FoodFacilityWithDistance(f, d) ==
    [locationid |-> f.locationid, Applicant |-> f.Applicant, Address |-> f.Address,
     Status |-> f.Status, Latitude |-> f.Latitude, Longitude |-> f.Longitude,
     distance_km |-> d]

-----------------------------------------------------------------------------
(* Repository (src/data_access/foodtruck_repository.py) *)

\* a connection is [state, rows]; a repository is [kind |-> "sqlite", db |-> conn]
FoodFacilityRepository(db) == [kind |-> "sqlite", db |-> db]

\* _execute_query: cursor.execute + fetchall give the matching rows; with
\* the table missing they raise sqlite3.Error, which is caught and answered
\* with an empty list
execute_query(self, matching) ==
    IF self.db.state = "no_table"
    THEN [exc |-> "none", rows |-> <<>>]
    ELSE [exc |-> "none", rows |-> matching]

HasCoordinates(r) == r.Latitude # None /\ r.Longitude # None

\* any status matches
StatusUnchecked(r, status) == r.Status # None

\* WHERE LOWER(Status) = ? with the parameter status.lower()
StatusMatches(r, status) ==
    r.Status # None /\ SqlLower(Get(r.Status)) = PyLower(status)

\* SELECT * ... WHERE LOWER(Status) = ? AND Latitude IS NOT NULL AND
\* Longitude IS NOT NULL, over the rows of the table
SelectByStatus(rows, status) ==
    SelectSeq(rows, LAMBDA r : StatusMatches(r, status) /\ HasCoordinates(r))

\* SELECT * ... WHERE Latitude IS NOT NULL AND Longitude IS NOT NULL
SelectWithLocation(rows) == SelectSeq(rows, HasCoordinates)

get_facilities_by_status(self, status) ==
    Materialize(execute_query(self, SelectByStatus(self.db.rows, status)))

get_all_facilities_with_location(self) ==
    Materialize(execute_query(self, SelectWithLocation(self.db.rows)))

-----------------------------------------------------------------------------
(* Service (src/services/foodtruck_service.py) *)

FoodFacilityService(repository) == [repository |-> repository]

\* self.repository.<method>(): the SQLite repository, or any other object
\* injected through the constructor that answers with a fixed list
Repository_by_status(repository, status) ==
    IF repository.kind = "sqlite"
    THEN get_facilities_by_status(repository, status)
    ELSE [exc |-> "none", value |-> repository.returns]

Repository_all_with_location(repository) ==
    IF repository.kind = "sqlite"
    THEN get_all_facilities_with_location(repository)
    ELSE [exc |-> "none", value |-> repository.returns]

\* the check left out
LocationUnchecked(facility_base) == TRUE

\* the check of line 70
LocationPresent(facility_base) ==
    facility_base.Latitude # None /\ facility_base.Longitude # None

\* a result list kept from the call before
LeftoverResultList ==
    IF request.kind \in {"nearest", "service"} THEN response.body ELSE <<>>

\* facilities_with_distance = []
NewResultList == <<>>

\* the loop of lines 66-74
AttachDistances(facilities_base, lat, lon) ==
    LET kept == SelectSeq(facilities_base, LocationPresent)
    IN  NewResultList \o
        [i \in 1..Len(kept) |->
            FoodFacilityWithDistance(kept[i],
                calculate_distance(Some(lat), Some(lon),
                                   kept[i].Latitude, kept[i].Longitude))]

\* an ascending sort that is not stable: an element is inserted in front of
\* the elements whose key equals its own
InsertBeforeEqual(sorted, x) ==
    LET k == Cardinality({i \in 1..Len(sorted) :
                            DistLt(sorted[i].distance_km, x.distance_km)})
    IN  SubSeq(sorted, 1, k) \o <<x>> \o SubSeq(sorted, k + 1, Len(sorted))

\* list.sort(key=lambda x: x.distance_km): ascending and stable.  Each
\* element is inserted behind every element whose key is <= its own.
InsertByDistance(sorted, x) ==
    LET k == Cardinality({i \in 1..Len(sorted) :
                            DistLe(sorted[i].distance_km, x.distance_km)})
    IN  SubSeq(sorted, 1, k) \o <<x>> \o SubSeq(sorted, k + 1, Len(sorted))

\* no sort: storage order is kept
KeepStorageOrder(s) == s

RECURSIVE SortByDistance(_)
SortByDistance(s) ==
    IF s = <<>> THEN <<>>
    ELSE InsertByDistance(SortByDistance(SubSeq(s, 1, Len(s) - 1)), s[Len(s)])

\* Python's s[:limit]
SliceTo(s, limit) ==
    IF limit >= 0
    THEN SubSeq(s, 1, IF limit < Len(s) THEN limit ELSE Len(s))
    ELSE SubSeq(s, 1, IF Len(s) + limit > 0 THEN Len(s) + limit ELSE 0)

\* which repository read the orchestrator issues
FetchCall(status) ==
    IF status # None THEN "get_facilities_by_status"
    ELSE "get_all_facilities_with_location"

\* the service compares the status with the keyword "all" itself
find_nearest_resolving_all(self, lat, lon, status, limit) ==
    LET effective == IF status # None /\ PyLower(Get(status)) = <<"a", "l", "l">>
                     THEN None ELSE status
        facilities_base ==
            IF effective # None
            THEN Repository_by_status(self.repository, Get(effective))
            ELSE Repository_all_with_location(self.repository)
    IN  IF facilities_base.exc # "none"
        THEN [exc |-> facilities_base.exc, value |-> <<>>,
              calls |-> <<FetchCall(effective)>>]
        ELSE [exc |-> "none",
              value |-> SliceTo(SortByDistance(
                            AttachDistances(facilities_base.value, lat, lon)), limit),
              calls |-> <<FetchCall(effective)>>]

\* status is Optional[str]; the result is [exc, value, calls], calls being
\* the repository methods invoked, in order
FoodFacilityService_find_nearest(self, lat, lon, status, limit) ==
    LET facilities_base ==
            IF status # None
            THEN Repository_by_status(self.repository, Get(status))
            ELSE Repository_all_with_location(self.repository)
    IN  IF facilities_base.exc # "none"
        THEN [exc |-> facilities_base.exc, value |-> <<>>,
              calls |-> <<FetchCall(status)>>]
        ELSE [exc |-> "none",
              value |-> SliceTo(SortByDistance(
                            AttachDistances(facilities_base.value, lat, lon)), limit),
              calls |-> <<FetchCall(status)>>]

-----------------------------------------------------------------------------
(* Substring search (repository and service) *)

\* SQLite's LIKE on an already lower-cased subject: % matches any run of
\* characters, _ any one character, every other character itself
RECURSIVE Like(_, _)
Like(pat, subject) ==
    IF pat = <<>> THEN subject = <<>>
    ELSE IF Head(pat) = "%"
         THEN Like(Tail(pat), subject)
              \/ (subject # <<>> /\ Like(pat, Tail(subject)))
    ELSE IF Head(pat) = "_"
         THEN subject # <<>> /\ Like(Tail(pat), Tail(subject))
    ELSE subject # <<>>
         /\ SqlLower(<<Head(pat)>>) = SqlLower(<<Head(subject)>>)
         /\ Like(Tail(pat), Tail(subject))

\* f"%{query.lower()}%"
LikePattern(query) == <<"%">> \o PyLower(query) \o <<"%">>

\* SELECT * ... WHERE LOWER(Applicant) LIKE ? [AND LOWER(Status) = ?];
\* status is Optional[str], and "if status:" is false for None and for ""
SelectByApplicant(rows, name_query, status) ==
    SelectSeq(rows,
              LAMBDA r : /\ r.Applicant # None
                         /\ Like(LikePattern(name_query), SqlLower(Get(r.Applicant)))
                         /\ ((status # None /\ Get(status) # <<>>)
                                => StatusMatches(r, Get(status))))

\* SELECT * ... WHERE LOWER(Address) LIKE ?
SelectByStreet(rows, street_query) ==
    SelectSeq(rows,
              LAMBDA r : /\ r.Address # None
                         /\ Like(LikePattern(street_query), SqlLower(Get(r.Address))))

search_by_applicant_name(self, name_query, status) ==
    Materialize(execute_query(self, SelectByApplicant(self.db.rows, name_query, status)))

search_by_street_name(self, street_query) ==
    Materialize(execute_query(self, SelectByStreet(self.db.rows, street_query)))

FoodFacilityService_search_by_name(self, applicant_name, status) ==
    search_by_applicant_name(self.repository, applicant_name, status)

FoodFacilityService_search_by_street(self, street_name) ==
    search_by_street_name(self.repository, street_name)

-----------------------------------------------------------------------------
(* Transport (src/api/foodtrucks.py, src/core/database.py) *)

DEFAULT_STATUS == APPROVED
DEFAULT_LIMIT == 5
MIN_LIMIT == 1

\* what a query-string value parses to as a float / as an int; a value
\* outside the domain does not parse
\* the query strings the model sends as lat or lon, and the float each is
\* parsed to: a literal beyond the range of a double is an infinity
FloatLiterals ==
    "0" :> Num(0) @@ "2" :> Num(2) @@ "2.0" :> Num(2) @@ "91" :> Num(91) @@
    "nan" :> NaN @@ "inf" :> PosInf @@ "-inf" :> NegInf @@
    "1e400" :> PosInf @@ "-1e400" :> NegInf

\* the query strings that are not parsed to a float
NotFloats == {"abc"}

\* the query strings the model sends as limit, and the int each is parsed
\* to: a decimal literal with a zero fraction is accepted
IntLiterals ==
    "-1" :> (-1) @@ "0" :> 0 @@ "1" :> 1 @@ "2" :> 2 @@ "2.0" :> 2 @@
    "3" :> 3 @@ "5" :> 5

\* the query strings that are not parsed to an int
NotInts == {"abc", "2.5", "nan", "inf", "1e400"}

\* lat: float = Query(...): required, any float literal is accepted; the
\* strings of NotFloats are rejected, other strings are those of
\* FloatLiterals
QueryFloat(raw) ==
    IF raw = None \/ Get(raw) \in NotFloats
    THEN [ok |-> FALSE, v |-> NaN]
    ELSE [ok |-> TRUE, v |-> FloatLiterals[Get(raw)]]

\* limit: int = Query(5, ge=1); the strings of NotInts are rejected, other
\* strings are those of IntLiterals
QueryLimit(raw) ==
    IF raw = None THEN [ok |-> TRUE, v |-> DEFAULT_LIMIT]
    ELSE IF Get(raw) \in NotInts THEN [ok |-> FALSE, v |-> 0]
    ELSE [ok |-> IntLiterals[Get(raw)] >= MIN_LIMIT, v |-> IntLiterals[Get(raw)]]

\* no default: an absent status means every status
QueryStatusNoDefault(raw) == IF raw = None THEN all_kw ELSE Get(raw)

\* status: Optional[str] = Query("APPROVED")
QueryStatus(raw) == IF raw = None THEN DEFAULT_STATUS ELSE Get(raw)

\* get_db: sqlite3.connect; a failure to open becomes HTTPException(500)
get_db ==
    IF dbState = "cannot_open"
    THEN [exc |-> "HTTPException", conn |-> [state |-> dbState, rows |-> <<>>]]
    ELSE [exc |-> "none", conn |-> [state |-> dbState, rows |-> table]]

get_food_facility_service(db) == FoodFacilityService(FoodFacilityRepository(db))

\* the keyword compared without lower()
SearchStatusCaseSensitive(status) ==
    IF status # <<>> /\ status # all_kw THEN Some(status) ELSE None

\* search_status = status if status and status.lower() != 'all' else None
SearchStatus(status) ==
    IF status # <<>> /\ PyLower(status) # all_kw THEN Some(status) ELSE None

\* body of the /nearest endpoint; lat, lon, status, limit are validated values
find_nearest(lat, lon, status, limit, service) ==
    FoodFacilityService_find_nearest(service, lat, lon, SearchStatus(status), limit)

Response(code, body, svc, calls) ==
    [code |-> code, body |-> body, svc |-> svc, calls |-> calls]

\* response_model=List[FoodFacilityWithDistance]: the returned list is
\* written as JSON.  distance_km = inf is no JSON number: the encoder either
\* raises ValueError (the request ends with status 500) or writes null, and
\* which of the two depends on the installed fastapi and pydantic
JsonEncodable(results) ==
    encoder = "null" \/ \A i \in 1..Len(results) : results[i].distance_km.fin

\* GET /foodtrucks/nearest: the dependencies are resolved first, then the
\* query parameters are validated, then the endpoint runs; an exception of
\* the endpoint or of the encoder is answered with status 500.  In a
\* response with status 200 a distance_km that is not finite stands for null.
NearestRoute(req) ==
    LET db    == get_db
        lat   == QueryFloat(req.lat)
        lon   == QueryFloat(req.lon)
        limit == QueryLimit(req.limit)
        status == QueryStatus(req.status)
    IN  IF db.exc # "none" THEN Response("500", <<>>, None, <<>>)
        ELSE IF ~(lat.ok /\ lon.ok /\ limit.ok) THEN Response("422", <<>>, None, <<>>)
        ELSE LET out == find_nearest(lat.v, lon.v, status, limit.v,
                                     get_food_facility_service(db.conn))
                 svc == Some([lat |-> lat.v, lon |-> lon.v,
                              status |-> SearchStatus(status), limit |-> limit.v])
             IN  IF out.exc # "none"
                 THEN Response("500", <<>>, svc, <<"find_nearest">> \o out.calls)
                 ELSE IF ~JsonEncodable(out.value)
                 THEN Response("500", <<>>, svc, <<"find_nearest">> \o out.calls)
                 ELSE Response("200", out.value, svc, <<"find_nearest">> \o out.calls)

\* GET /foodtrucks/search/name: q required, status optional without default
SearchNameRoute(req) ==
    LET db == get_db
    IN  IF db.exc # "none" THEN Response("500", <<>>, None, <<>>)
        ELSE IF req.q = None THEN Response("422", <<>>, None, <<>>)
        ELSE LET out == FoodFacilityService_search_by_name(
                            get_food_facility_service(db.conn), Get(req.q), req.status)
             IN  IF out.exc # "none"
                 THEN Response("500", <<>>, None, <<"search_by_name">>)
                 ELSE Response("200", out.value, None, <<"search_by_name">>)

\* GET /foodtrucks/search/street: q required
SearchStreetRoute(req) ==
    LET db == get_db
    IN  IF db.exc # "none" THEN Response("500", <<>>, None, <<>>)
        ELSE IF req.q = None THEN Response("422", <<>>, None, <<>>)
        ELSE LET out == FoodFacilityService_search_by_street(
                            get_food_facility_service(db.conn), Get(req.q))
             IN  IF out.exc # "none"
                 THEN Response("500", <<>>, None, <<"search_by_street">>)
                 ELSE Response("200", out.value, None, <<"search_by_street">>)

-----------------------------------------------------------------------------
(* Store contents *)

Taco == <<"T", "a", "c", "o">>
Deli == <<"D", "e", "l", "i">>
Oak  == <<"O", "A", "K">>
Elm  == <<"E", "L", "M">>

Lat0  == Some(Num(0))
Lat91 == Some(Num(91))
Lon(n) == Some(Num(n))

\* the rows small tables are drawn from
Pool ==
    { Row(1, Some(Taco), Some(Oak), Some(APPROVED), Lat0, Lon(1)),
      Row(2, Some(Deli), None,      Some(approved), Lat0, Lon(2)),
      Row(3, Some(Taco), Some(Oak), Some(EXPIRED),  Lat0, Lon(1)),
      Row(4, Some(Deli), Some(Elm), None,           Lat0, Lon(0)),
      Row(5, Some(Taco), Some(Elm), Some(APPROVED), None, Lon(1)),
      Row(6, None,       Some(Oak), Some(APPROVED), Lat0, Lon(1)),
      Row(7, Some(Deli), Some(Oak), Some(APPROVED), Lat91, Lon(1)),
      Row(9, Some(Taco), None,      Some(EAcuteUp), Lat0, Lon(2)),
      Row(10, Some(Taco), Some(Elm), Some(EAcuteLo), Lat0, Lon(3)) }

\* a table with more approved rows than the default limit, equal distances,
\* rows without a coordinate and statuses in several spellings
Catalogue ==
    << Row(14, Some(Taco), Some(Oak), Some(APPROVED), Lat0, Lon(4)),
       Row(1,  Some(Taco), Some(Oak), Some(APPROVED), Lat0, Lon(1)),
       Row(8,  Some(Deli), Some(Elm), Some(EXPIRED),  Lat0, None),
       Row(13, Some(Deli), Some(Elm), Some(Approved), Lat0, Lon(2)),
       Row(9,  Some(Taco), None,      Some(EAcuteUp), Lat0, Lon(2)),
       Row(3,  Some(Taco), Some(Oak), Some(EXPIRED),  Lat0, Lon(1)),
       Row(11, Some(Deli), Some(Oak), Some(APPROVED), Lat0, Lon(3)),
       Row(2,  Some(Deli), None,      Some(approved), Lat0, Lon(2)),
       Row(10, Some(Taco), Some(Elm), Some(EAcuteLo), Lat0, Lon(3)),
       Row(12, Some(Taco), Some(Elm), Some(APPROVED), Lat0, Lon(0)),
       Row(4,  Some(Deli), Some(Elm), None,           Lat0, Lon(0)),
       Row(15, Some(Deli), Some(Oak), Some(APPROVED), Lat0, Lon(2)),
       Row(5,  Some(Taco), Some(Elm), Some(APPROVED), None, Lon(1)),
       Row(7,  Some(Deli), Some(Oak), Some(APPROVED), Lat91, Lon(1)) >>

Reverse(s) == [i \in 1..Len(s) |-> s[Len(s) + 1 - i]]

MaxRows == 2

SmallTables ==
    UNION { { t \in [1..n -> Pool] : \A i, j \in 1..n : i # j => t[i] # t[j] }
            : n \in 0..MaxRows }

LargeTables == {Catalogue, Reverse(Catalogue)}

-----------------------------------------------------------------------------
(* Requests *)

NearestQuery(lat, lon, status, limit) ==
    [kind |-> "nearest", lat |-> lat, lon |-> lon, status |-> status, limit |-> limit]

StatusParams ==
    {None, Some(all_kw), Some(ALL_kw), Some(approved), Some(EXPIRED),
     Some(EmptyStr), Some(EAcuteUp)}

NearestQueries ==
    { NearestQuery(Some("0"), Some("0"), st, lim) :
        st \in StatusParams, lim \in {None, Some("2")} }
    \cup
    { NearestQuery(Some("0"), Some("2"), st, Some("1")) : st \in {None, Some(All_kw)} }
    \cup
    { NearestQuery(lat, Some("0"), None, None) :
        lat \in {None, Some("abc"), Some("nan"), Some("91"), Some("1e400")} }
    \cup
    { NearestQuery(Some("0"), lon, None, None) : lon \in {Some("inf"), Some("1e400")} }
    \cup
    { NearestQuery(Some("0"), Some("0"), None, lim) :
        lim \in {Some("0"), Some("-1"), Some("abc"), Some("3"),
                 Some("2.0"), Some("2.5")} }

NameQuery(q, status) == [kind |-> "name", q |-> q, status |-> status]
StreetQuery(q) == [kind |-> "street", q |-> q]

NameQueries ==
    { NameQuery(Some(<<"t", "a">>), st) : st \in {None, Some(approved), Some(EmptyStr)} }
    \cup {NameQuery(Some(<<"E", "L">>), None), NameQuery(None, None)}
    \cup {NameQuery(Some(<<"a", "_", "o">>), None), NameQuery(Some(<<"%">>), None)}

StreetQueries == { StreetQuery(q) : q \in {None, Some(<<"o", "a">>), Some(<<"z">>)} }

\* a caller that builds the service itself: on the SQLite repository, or on
\* an injected repository that returns every valid record whatever is asked
DirectCall(repo, lat, lon, status, limit) ==
    [kind |-> "service", repo |-> repo, lat |-> lat, lon |-> lon,
     status |-> status, limit |-> limit]

DirectCalls ==
    { DirectCall("sqlite", Num(0), Num(0), st, 2) :
        st \in {None, Some(all_kw), Some(ALL_kw), Some(approved)} }
    \cup
    { DirectCall("sqlite", Num(0), Num(0), None, lim) : lim \in {-1, 0} }
    \cup
    { DirectCall("injected", Num(0), Num(0), st, 1) : st \in {None, Some(approved)} }
    \cup
    { DirectCall("injected", Num(0), Num(0), None, DEFAULT_LIMIT) }

InjectedRepository == [kind |-> "injected", returns |-> SelectSeq(table, FoodFacilityBase_valid)]

DirectFindNearest(call) ==
    LET repository == IF call.repo = "sqlite"
                      THEN FoodFacilityRepository([state |-> dbState, rows |-> table])
                      ELSE InjectedRepository
        out == FoodFacilityService_find_nearest(FoodFacilityService(repository),
                    call.lat, call.lon, call.status, call.limit)
        svc == Some([lat |-> call.lat, lon |-> call.lon,
                     status |-> call.status, limit |-> call.limit])
    IN  IF out.exc # "none"
        THEN Response("raise", <<>>, svc, <<"find_nearest">> \o out.calls)
        ELSE Response("return", out.value, svc, <<"find_nearest">> \o out.calls)

-----------------------------------------------------------------------------
(* State machine *)

NoRequest == [kind |-> "none"]

\* the worker threads of the server, and the connection handles: one that
\* get_db opens for each worker's request, and one ("shared") that is opened
\* outside get_db and handed to every request
Workers == {"w1", "w2"}
Handles == Workers \cup {"shared"}

\* the cursor objects of a connection, by the worker that created them
CursorIds == Workers \cup {"connection"}

NoResponse == [code |-> "none", body |-> <<>>]

\* pc: where the worker stands in the handling of req; conn: the handle
\* get_db gave it; rows: what fetchall returned; resp: its response;
\* overlap: another worker ran a query between its execute and its fetchall
IdleWorker ==
    [pc |-> "idle", req |-> NoRequest, conn |-> None, rows |-> <<>>,
     resp |-> NoResponse, overlap |-> FALSE]

\* open: connected and not closed; closes: how often close() ran on it;
\* misused: a cursor or query was asked of it after close(); cursors: the
\* pending result set of each cursor
NoConnection ==
    [open |-> FALSE, closes |-> 0, misused |-> FALSE,
     cursors |-> [c \in CursorIds |-> <<>>]]

Connect == [NoConnection EXCEPT !.open = TRUE]

\* the atomic specifications have no worker threads and no connection
\* handles of their own
Sequential ==
    /\ workers = <<>>
    /\ connections = <<>>
    /\ dependency_overrides = {}

Init ==
    /\ dbState \in {"ok", "no_table", "cannot_open"}
    /\ \/ dbState = "ok" /\ table \in SmallTables
       \/ dbState = "ok" /\ table \in LargeTables
       \/ dbState # "ok" /\ table = <<>>
    /\ encoder \in {"null", "ValueError"}
    /\ request = NoRequest
    /\ response = Response("none", <<>>, None, <<>>)
    /\ first = None
    /\ Sequential

NearestRequest(q) ==
    /\ request' = q
    /\ response' = NearestRoute(q)
    /\ UNCHANGED <<table, dbState, encoder, workers, connections, dependency_overrides>>

SearchNameRequest(q) ==
    /\ request' = q
    /\ response' = SearchNameRoute(q)
    /\ UNCHANGED <<table, dbState, encoder, workers, connections, dependency_overrides>>

SearchStreetRequest(q) ==
    /\ request' = q
    /\ response' = SearchStreetRoute(q)
    /\ UNCHANGED <<table, dbState, encoder, workers, connections, dependency_overrides>>

ServiceCall(call) ==
    /\ call.repo = "sqlite" => dbState # "cannot_open"
    /\ request' = call
    /\ response' = DirectFindNearest(call)
    /\ UNCHANGED <<table, dbState, encoder, workers, connections, dependency_overrides>>

Next ==
    \/ \E q \in NearestQueries : NearestRequest(q) /\ UNCHANGED first
    \/ \E q \in NameQueries : SearchNameRequest(q) /\ UNCHANGED first
    \/ \E q \in StreetQueries : SearchStreetRequest(q) /\ UNCHANGED first
    \/ \E call \in DirectCalls : ServiceCall(call) /\ UNCHANGED first

Spec == Init /\ [][Next]_vars

-----------------------------------------------------------------------------
(* The same requests with a history of the first observed nearest request *)

\* the nearest requests whose first answer is remembered
ProbeQueries ==
    { NearestQuery(Some("0"), Some("0"), None, None),
      NearestQuery(Some("0"), Some("0"), Some(ALL_kw), Some("2")),
      NearestQuery(Some("0"), Some("2"), None, Some("1")) }

\* first is None until a probe is answered; then it holds that request, its
\* response, whether another request was handled since (others) and
\* whether the probe was sent again after another request (repeated)
Observe(q, resp) ==
    IF first = None
    THEN IF q \in ProbeQueries
         THEN Some([request |-> q, response |-> resp,
                    others |-> FALSE, repeated |-> FALSE])
         ELSE None
    ELSE IF q = Get(first).request
         THEN Some([Get(first) EXCEPT !.repeated = @ \/ Get(first).others])
         ELSE Some([Get(first) EXCEPT !.others = TRUE])

HistoryTables ==
    { SubSeq(Catalogue, 1, n) : n \in 0..Len(Catalogue) } \cup {Reverse(Catalogue)}

InitHistory ==
    /\ dbState = "ok"
    /\ table \in HistoryTables
    /\ encoder \in {"null", "ValueError"}
    /\ request = NoRequest
    /\ response = Response("none", <<>>, None, <<>>)
    /\ first = None
    /\ Sequential

NextHistory ==
    \/ \E q \in NearestQueries : NearestRequest(q) /\ first' = Observe(q, response')
    \/ \E q \in NameQueries : SearchNameRequest(q) /\ first' = Observe(q, response')
    \/ \E q \in StreetQueries : SearchStreetRequest(q) /\ first' = Observe(q, response')
    \/ \E call \in DirectCalls : ServiceCall(call) /\ first' = Observe(call, response')

SpecHistory == InitHistory /\ [][NextHistory]_vars

-----------------------------------------------------------------------------
(* Requests handled step by step by concurrent worker threads.  The
   endpoints are plain functions, which the server runs in a thread pool; a
   worker goes through
     get_db -> validate -> cursor -> pragma -> pragma_fetchone -> execute
            -> fetchall -> build -> finally
   and each step is one call into sqlite3 (serialised by the connection's
   mutex) or thread-local work. *)

W(w) == workers[w]

\* the variables of the atomic view and the overrides, which the workers
\* leave alone
atomic == <<table, dbState, request, response, first, encoder, dependency_overrides>>
ConnectionOf(w) == connections[Get(workers[w].conn)]

\* app.dependency_overrides[get_db] = lambda: conn is in force: every
\* request gets the one connection opened outside get_db, open or closed
Overridden == "get_db" \in dependency_overrides

\* one cursor object for the whole connection
connection_cursor(w) == "connection"

\* cursor = self.db.cursor(): a new cursor object for every query
new_cursor(w) == w

\* the connection is left open
get_db_leak(conn) == conn

\* finally: if conn: conn.close()
get_db_finally(conn) == [conn EXCEPT !.open = FALSE, !.closes = @ + 1]

\* the parameters of the request pass the validation of their Query(...)
ParametersValid(req) ==
    IF req.kind = "nearest"
    THEN QueryFloat(req.lat).ok /\ QueryFloat(req.lon).ok /\ QueryLimit(req.limit).ok
    ELSE req.q # None

\* the rows the query of the request selects
SelectFor(req, rows) ==
    CASE req.kind = "nearest" ->
            LET search_status == SearchStatus(QueryStatus(req.status))
            IN  IF search_status # None
                THEN SelectByStatus(rows, Get(search_status))
                ELSE SelectWithLocation(rows)
      [] req.kind = "name" -> SelectByApplicant(rows, Get(req.q), req.status)
      [] req.kind = "street" -> SelectByStreet(rows, Get(req.q))

\* what the repository, the service and the endpoint make of the fetched
\* rows: the records, for a nearest request ranked and cut, then encoded
BuildResponse(req, rows) ==
    LET facilities_base == Materialize([exc |-> "none", rows |-> rows])
    IN  IF facilities_base.exc # "none" THEN [code |-> "500", body |-> <<>>]
        ELSE IF req.kind # "nearest" THEN [code |-> "200", body |-> facilities_base.value]
        ELSE LET out == find_nearest(QueryFloat(req.lat).v, QueryFloat(req.lon).v,
                            QueryStatus(req.status), QueryLimit(req.limit).v,
                            FoodFacilityService([kind |-> "fetched",
                                                 returns |-> facilities_base.value]))
             IN  IF ~JsonEncodable(out.value) THEN [code |-> "500", body |-> <<>>]
                 ELSE [code |-> "200", body |-> out.value]

ConcurrentQueries ==
    { NearestQuery(Some("0"), Some("0"), None, None),
      NearestQuery(Some("0"), Some("0"), Some(ALL_kw), Some("2")),
      NearestQuery(Some("0"), Some("0"), None, Some("0")),
      NameQuery(Some(<<"t", "a">>), None),
      StreetQuery(Some(<<"o", "a">>)) }

\* a table every query finds something else in, and a table with a row that
\* fails validation when a nearest or street query selects it
ConcurrentTables ==
    { << Row(14, Some(Taco), Some(Oak), Some(APPROVED), Lat0, Lon(4)),
         Row(13, Some(Deli), Some(Elm), Some(Approved), Lat0, Lon(2)),
         Row(3,  Some(Taco), Some(Oak), Some(EXPIRED),  Lat0, Lon(1)) >>,
      << Row(1,  Some(Taco), Some(Oak), Some(APPROVED), Lat0, Lon(1)),
         Row(6,  None,       Some(Oak), Some(APPROVED), Lat0, Lon(1)) >> }

InitConcurrent ==
    /\ dbState \in {"ok", "no_table", "cannot_open"}
    /\ \/ dbState = "ok" /\ table \in ConcurrentTables
       \/ dbState # "ok" /\ table = <<>>
    /\ encoder \in {"null", "ValueError"}
    /\ request = NoRequest
    /\ response = Response("none", <<>>, None, <<>>)
    /\ first = None
    /\ workers = [w \in Workers |-> IdleWorker]
    /\ \/ /\ connections = [h \in Handles |-> NoConnection]
          /\ dependency_overrides = {}
       \/ /\ dbState # "cannot_open"
          /\ connections = [h \in Handles |->
                               IF h = "shared" THEN Connect ELSE NoConnection]
          /\ dependency_overrides = {"get_db"}

\* a request arrives at a free worker; the objects of its last request are gone
Receive(w, q) ==
    /\ W(w).pc \in {"idle", "done"}
    /\ workers' = [workers EXCEPT ![w] = [IdleWorker EXCEPT !.pc = "get_db", !.req = q]]
    /\ connections' = [connections EXCEPT ![w] = NoConnection]
    /\ UNCHANGED atomic

\* Depends(get_db), up to the yield
GetDb(w) ==
    /\ W(w).pc = "get_db"
    /\ UNCHANGED atomic
    /\ IF Overridden
       THEN /\ workers' = [workers EXCEPT ![w].pc = "validate", ![w].conn = Some("shared")]
            /\ UNCHANGED connections
       ELSE IF get_db.exc # "none"
       THEN /\ workers' = [workers EXCEPT ![w].pc = "done",
                                          ![w].resp = [code |-> "500", body |-> <<>>]]
            /\ UNCHANGED connections
       ELSE /\ workers' = [workers EXCEPT ![w].pc = "validate", ![w].conn = Some(w)]
            /\ connections' = [connections EXCEPT ![w] = Connect]

\* the query parameters are validated once the dependencies are resolved
Validate(w) ==
    /\ W(w).pc = "validate"
    /\ UNCHANGED atomic
    /\ IF ParametersValid(W(w).req)
       THEN workers' = [workers EXCEPT ![w].pc = "cursor"]
       ELSE workers' = [workers EXCEPT ![w].pc = "finally",
                                       ![w].resp = [code |-> "422", body |-> <<>>]]
    /\ UNCHANGED connections

\* _execute_query, line 23: outside the try, so the ProgrammingError of a
\* closed connection ends the request with status 500
Cursor(w) ==
    /\ W(w).pc = "cursor"
    /\ UNCHANGED atomic
    /\ IF ConnectionOf(w).open
       THEN /\ workers' = [workers EXCEPT ![w].pc = "pragma"]
            /\ connections' = [connections EXCEPT
                                  ![Get(W(w).conn)].cursors[new_cursor(w)] = <<>>]
       ELSE /\ workers' = [workers EXCEPT ![w].pc = "finally",
                                          ![w].resp = [code |-> "500", body |-> <<>>]]
            /\ connections' = [connections EXCEPT ![Get(W(w).conn)].misused = TRUE]

\* _execute_query, line 25: self.db.execute("PRAGMA database_list;"), on a
\* temporary cursor of the connection; it does not need the table; the
\* ProgrammingError of a closed connection is caught, the rows are []
Pragma(w) ==
    /\ W(w).pc = "pragma"
    /\ UNCHANGED atomic
    /\ IF ConnectionOf(w).open
       THEN /\ workers' = [workers EXCEPT ![w].pc = "pragma_fetchone"]
            /\ UNCHANGED connections
       ELSE /\ workers' = [workers EXCEPT ![w].pc = "build", ![w].rows = <<>>]
            /\ connections' = [connections EXCEPT ![Get(W(w).conn)].misused = TRUE]

\* _execute_query, line 25: .fetchone()[2] on the temporary cursor; the
\* value is only kept in db_path
PragmaFetchone(w) ==
    /\ W(w).pc = "pragma_fetchone"
    /\ UNCHANGED atomic
    /\ IF ConnectionOf(w).open
       THEN /\ workers' = [workers EXCEPT ![w].pc = "execute"]
            /\ UNCHANGED connections
       ELSE /\ workers' = [workers EXCEPT ![w].pc = "build", ![w].rows = <<>>]
            /\ connections' = [connections EXCEPT ![Get(W(w).conn)].misused = TRUE]

\* _execute_query, line 27: the result set is held by the cursor; an
\* sqlite3.Error (no such table, closed connection) is caught, the rows
\* are []
Execute(w) ==
    /\ W(w).pc = "execute"
    /\ UNCHANGED atomic
    /\ IF ~ConnectionOf(w).open
       THEN /\ workers' = [workers EXCEPT ![w].pc = "build", ![w].rows = <<>>]
            /\ connections' = [connections EXCEPT ![Get(W(w).conn)].misused = TRUE]
       ELSE IF dbState = "no_table"
       THEN /\ workers' = [workers EXCEPT ![w].pc = "build", ![w].rows = <<>>]
            /\ UNCHANGED connections
       ELSE /\ workers' =
                  [v \in Workers |->
                      IF v = w THEN [W(v) EXCEPT !.pc = "fetchall"]
                      ELSE IF W(v).pc = "fetchall" /\ W(v).conn = W(w).conn
                           THEN [W(v) EXCEPT !.overlap = TRUE]
                      ELSE W(v)]
            /\ connections' = [connections EXCEPT
                                  ![Get(W(w).conn)].cursors[new_cursor(w)] =
                                      SelectFor(W(w).req, table)]

\* _execute_query, line 28: rows = cursor.fetchall(); the ProgrammingError
\* of a closed connection is caught, the rows are []
Fetchall(w) ==
    /\ W(w).pc = "fetchall"
    /\ UNCHANGED atomic
    /\ IF ConnectionOf(w).open
       THEN /\ workers' = [workers EXCEPT
                              ![w].pc = "build",
                              ![w].rows = ConnectionOf(w).cursors[new_cursor(w)]]
            /\ UNCHANGED connections
       ELSE /\ workers' = [workers EXCEPT ![w].pc = "build", ![w].rows = <<>>]
            /\ connections' = [connections EXCEPT ![Get(W(w).conn)].misused = TRUE]

\* the rest of the repository method, the service and the endpoint
Build(w) ==
    /\ W(w).pc = "build"
    /\ UNCHANGED atomic
    /\ workers' = [workers EXCEPT ![w].pc = "finally",
                                  ![w].resp = BuildResponse(W(w).req, W(w).rows)]
    /\ UNCHANGED connections

\* get_db after the yield, whether the endpoint returned or raised; the
\* overriding lambda has nothing after its return
Finally(w) ==
    /\ W(w).pc = "finally"
    /\ UNCHANGED atomic
    /\ workers' = [workers EXCEPT ![w].pc = "done"]
    /\ IF W(w).conn = Some(w)
       THEN connections' = [connections EXCEPT ![w] = get_db_finally(@)]
       ELSE UNCHANGED connections

\* the steps a worker takes once it has a request
WorkerStep(w) ==
    \/ GetDb(w)
    \/ Validate(w)
    \/ Cursor(w)
    \/ Pragma(w)
    \/ PragmaFetchone(w)
    \/ Execute(w)
    \/ Fetchall(w)
    \/ Build(w)
    \/ Finally(w)

NextConcurrent ==
    \/ \E w \in Workers : \E q \in ConcurrentQueries : Receive(w, q)
    \/ \E w \in Workers : GetDb(w)
    \/ \E w \in Workers : Validate(w)
    \/ \E w \in Workers : Cursor(w)
    \/ \E w \in Workers : Pragma(w)
    \/ \E w \in Workers : PragmaFetchone(w)
    \/ \E w \in Workers : Execute(w)
    \/ \E w \in Workers : Fetchall(w)
    \/ \E w \in Workers : Build(w)
    \/ \E w \in Workers : Finally(w)

SpecConcurrent == InitConcurrent /\ [][NextConcurrent]_vars

-----------------------------------------------------------------------------
(* The life of the connections get_db opens: the same workers, every one on
   a connection of its own, with fairness *)

\* a table whose row every query returns, and a table whose row fails
\* validation when a nearest or street query selects it
LifecycleTables ==
    { << Row(14, Some(Taco), Some(Oak), Some(APPROVED), Lat0, Lon(4)) >>,
      << Row(6,  None,       Some(Oak), Some(APPROVED), Lat0, Lon(1)) >> }

InitLifecycle ==
    /\ dbState \in {"ok", "no_table", "cannot_open"}
    /\ \/ dbState = "ok" /\ table \in LifecycleTables
       \/ dbState # "ok" /\ table = <<>>
    /\ encoder = "null"
    /\ request = NoRequest
    /\ response = Response("none", <<>>, None, <<>>)
    /\ first = None
    /\ workers = [w \in Workers |-> IdleWorker]
    /\ connections = [h \in Handles |-> NoConnection]
    /\ dependency_overrides = {}

\* a worker thread that has a request runs on until it has answered it
SpecLifecycle ==
    /\ InitLifecycle
    /\ [][NextConcurrent]_vars
    /\ \A w \in Workers : WF_vars(WorkerStep(w))

-----------------------------------------------------------------------------
(* The Distance Function called on its own *)

DistanceCall(lat1, lon1, lat2, lon2) ==
    [kind |-> "distance", lat1 |-> lat1, lon1 |-> lon1, lat2 |-> lat2, lon2 |-> lon2]

\* absent, valid, out of range and not-a-number latitudes; absent, valid and
\* not-a-number longitudes
LatitudeArgs == {None, Some(Num(0)), Some(Num(91)), Some(NaN)}
LongitudeArgs == {None, Some(Num(0)), Some(Num(1)), Some(NaN)}

DistanceCalls ==
    { DistanceCall(lat1, lon1, lat2, lon2) :
        lat1 \in LatitudeArgs, lon1 \in LongitudeArgs,
        lat2 \in LatitudeArgs, lon2 \in LongitudeArgs }

InitDistance ==
    /\ dbState = "ok"
    /\ table = <<>>
    /\ encoder = "null"
    /\ request = NoRequest
    /\ response = Response("none", <<>>, None, <<>>)
    /\ first = None
    /\ Sequential

\* the body of the response is the one value returned
CalculateDistance(call) ==
    /\ request' = call
    /\ response' = Response("return",
                        <<calculate_distance(call.lat1, call.lon1, call.lat2, call.lon2)>>,
                        None, <<"calculate_distance">>)
    /\ UNCHANGED <<table, dbState, first, encoder, workers, connections,
                 dependency_overrides>>

NextDistance == \E call \in DistanceCalls : CalculateDistance(call)

SpecDistance == InitDistance /\ [][NextDistance]_vars

-----------------------------------------------------------------------------
(* Vocabulary of the properties *)

Body == response.body
Code == response.code
Min(a, b) == IF a < b THEN a ELSE b

\* the handled request ran the nearest query (over HTTP or by a direct call)
IsFindNearest == request.kind \in {"nearest", "service"}
Answered == Code \in {"200", "return"}

TablePos(id) == CHOOSE i \in 1..Len(table) : table[i].locationid = id
IsTableRow(rec) == \E i \in 1..Len(table) : table[i].locationid = rec.locationid
                                             /\ table[i].Applicant = rec.Applicant
                                             /\ table[i].Address = rec.Address
                                             /\ table[i].Status = rec.Status
                                             /\ table[i].Latitude = rec.Latitude
                                             /\ table[i].Longitude = rec.Longitude

EqualIgnoringCase(a, b) == PyLower(a) = PyLower(b)

\* a stored record passes the status filter eff: its Status is eff, compared
\* case-insensitively (None: no filter)
PassesFilter(r, eff) ==
    eff # None => (r.Status # None /\ EqualIgnoringCase(Get(r.Status), Get(eff)))

\* a stored record with both coordinates that passes the filter
Eligible(r, eff) == r.Latitude # None /\ r.Longitude # None /\ PassesFilter(r, eff)

EligibleCount(eff) == Cardinality({i \in 1..Len(table) : Eligible(table[i], eff)})

IsHttp == request.kind \in {"nearest", "name", "street"}

\* the HTTP request names a concrete status (present and not the keyword)
ConcreteStatus ==
    /\ request.kind = "nearest"
    /\ request.status # None
    /\ PyLower(Get(request.status)) # all_kw

AllStatus ==
    /\ request.kind = "nearest"
    /\ request.status # None
    /\ PyLower(Get(request.status)) = all_kw

-----------------------------------------------------------------------------
(* C1: the result of every nearest query is in ascending order of
   distance_km: each result is at most as far as the one after it. *)
C1_SortedByDistance ==
    (IsFindNearest /\ Answered) =>
        \A i \in 1..(Len(Body) - 1) :
            DistLe(Body[i].distance_km, Body[i + 1].distance_km)

\* two results at different distances that storage returned in the other order
C1_Witness ==
    /\ request.kind = "nearest"
    /\ Code = "200"
    /\ Len(Body) >= 2
    /\ DistLt(Body[1].distance_km, Body[2].distance_km)
    /\ TablePos(Body[1].locationid) > TablePos(Body[2].locationid)

(* C2: the number of results of a nearest query with limit >= 1 equals
   min(limit, N), N being the number of stored records with both coordinates
   that pass the effective status filter. *)
C2_CountIsMinLimitEligible ==
    /\ (request.kind = "nearest" /\ Code = "200") =>
           Len(Body) = Min(Get(response.svc).limit,
                           EligibleCount(Get(response.svc).status))
    /\ (request.kind = "service" /\ request.repo = "sqlite"
            /\ request.limit >= 1 /\ Code = "return") =>
           Len(Body) = Min(request.limit, EligibleCount(request.status))

(* C3 as stated: when the status parameter of a nearest request is a concrete
   value (present, not the keyword "all"), every returned record has that
   status, compared case-insensitively, and has both coordinates. *)
C3_ConcreteStatusFilters ==
    (ConcreteStatus /\ Code = "200") =>
        \A i \in 1..Len(Body) :
            /\ Body[i].Status # None
            /\ EqualIgnoringCase(Get(Body[i].Status), Get(request.status))
            /\ Body[i].Latitude # None
            /\ Body[i].Longitude # None

(* C3 amended: when the status parameter of a nearest request is a non-empty
   concrete value (present, not "", not the keyword "all"), every returned
   record has that status, compared case-insensitively, and has both
   coordinates. *)
C3_NonEmptyStatusFilters ==
    (ConcreteStatus /\ Get(request.status) # <<>> /\ Code = "200") =>
        \A i \in 1..Len(Body) :
            /\ Body[i].Status # None
            /\ EqualIgnoringCase(Get(Body[i].Status), Get(request.status))
            /\ Body[i].Latitude # None
            /\ Body[i].Longitude # None

\* "approved" was asked for; a record stored as "APPROVED" came back, and a
\* located record of another status stayed out
C3_Witness ==
    /\ ConcreteStatus
    /\ Get(request.status) = approved
    /\ Code = "200"
    /\ \E i \in 1..Len(Body) : Body[i].Status = Some(APPROVED)
    /\ \E i \in 1..Len(table) :
           /\ Eligible(table[i], None)
           /\ table[i].Status # None
           /\ ~EqualIgnoringCase(Get(table[i].Status), approved)

(* C4: a nearest request whose status is "all" in any letter case runs the
   orchestrator without a status filter, on fetch-all-with-location; its
   results are distinct stored records with both coordinates, as many as the
   limit allows out of all such records, whatever their Status. *)
C4_AllDisablesFilter ==
    (AllStatus /\ response.svc # None) =>
        /\ Get(response.svc).status = None
        /\ response.calls = <<"find_nearest", "get_all_facilities_with_location">>
        /\ Code = "200" =>
            /\ Len(Body) = Min(Get(response.svc).limit, EligibleCount(None))
            /\ \A i \in 1..Len(Body) : IsTableRow(Body[i]) /\ Eligible(Body[i], None)
            /\ \A i, j \in 1..Len(Body) :
                   i # j => Body[i].locationid # Body[j].locationid

\* "ALL" or "All" was sent, and the results hold a record without a Status
\* next to a record with one
C4_Witness ==
    /\ AllStatus
    /\ Get(request.status) # all_kw
    /\ Code = "200"
    /\ \E i, j \in 1..Len(Body) : Body[i].Status = None /\ Body[j].Status # None

\* the request with the defaults written out
WithDefaults(req) ==
    [req EXCEPT !.status = IF @ = None THEN Some(APPROVED) ELSE @,
                !.limit  = IF @ = None THEN Some("5") ELSE @]

(* C5: a nearest request that omits status and/or limit is answered exactly
   as the same request with status=APPROVED and limit=5 written out; without
   a status only approved records are returned, without a limit at most 5. *)
C5_DefaultsApplied ==
    (request.kind = "nearest" /\ (request.status = None \/ request.limit = None)) =>
        /\ response = NearestRoute(WithDefaults(request))
        /\ (request.status = None /\ Code = "200") =>
               \A i \in 1..Len(Body) :
                   /\ Body[i].Status # None
                   /\ PyLower(Get(Body[i].Status)) = approved
        /\ request.limit = None => Len(Body) <= 5

\* both omitted, more than five approved candidates and some other ones:
\* exactly five come back
C5_Witness ==
    /\ request.kind = "nearest"
    /\ request.status = None
    /\ request.limit = None
    /\ Code = "200"
    /\ Len(Body) = 5
    /\ EligibleCount(Some(APPROVED)) > 5
    /\ EligibleCount(None) > EligibleCount(Some(APPROVED))

(* C6: no record without a Latitude or without a Longitude is in the output
   of a nearest query, also when the repository hands such a record to the
   orchestrator. *)
C6_NoMissingCoordinate ==
    (IsFindNearest /\ Answered) =>
        \A i \in 1..Len(Body) : Body[i].Latitude # None /\ Body[i].Longitude # None

\* an injected repository handed over a record without a coordinate, and the
\* orchestrator answered with the other records
C6_Witness ==
    /\ request.kind = "service"
    /\ request.repo = "injected"
    /\ Code = "return"
    /\ \E i \in 1..Len(InjectedRepository.returns) :
           ~LocationPresent(InjectedRepository.returns[i])
    /\ Len(Body) >= 1

(* C7: nearest queries are idempotent: whatever requests were handled in
   between, a nearest request equal to the first one observed gets the
   response the first one got. *)
C7_Idempotent ==
    [][(first # None /\ request' = Get(first).request)
          => response' = Get(first).response]_vars

\* the remembered request was sent again after other requests and was
\* answered with the remembered results
C7_Witness ==
    /\ first # None
    /\ Get(first).others
    /\ Get(first).repeated
    /\ request = Get(first).request
    /\ response = Get(first).response
    /\ Len(Body) >= 2

(* C8: no nearest, name-search or street-search request on a readable
   database ends in an error because of the rows stored: the response is
   never a server error.  (Stated where the encoder writes null for a
   distance that is not finite, so that no error stems from the reference
   point of the request.) *)
C8_NoErrorFromData ==
    (IsHttp /\ dbState = "ok" /\ encoder = "null") => Code # "500"

(* C9: every storage access error of a request, a failure to open
   the connection as well as a failed query, ends in an empty result list
   and never in a failed response. *)
C9_StorageErrorsGiveEmptyList ==
    (IsHttp /\ dbState # "ok") =>
        /\ Code # "500"
        /\ Body = <<>>
        /\ response.calls # <<>> => Code = "200"

\* the query-string values that parse as finite numbers
FiniteLiterals == {"0", "2", "2.0", "91"}

NotFiniteNumber(raw) == raw = None \/ Get(raw) \notin FiniteLiterals

(* C10: a nearest request whose lat or lon is missing or does not parse as a
   finite number (text, NaN, +/-Infinity) is rejected with status 422 and
   find_nearest is not invoked for it. *)
C10_BadCoordinatesRejected ==
    (request.kind = "nearest" /\ dbState = "ok"
        /\ (NotFiniteNumber(request.lat) \/ NotFiniteNumber(request.lon))) =>
        /\ Code = "422"
        /\ response.calls = <<>>

\* the limit parameter is present and parses as an integer below 1
LimitBelowOne ==
    /\ request.kind = "nearest"
    /\ request.limit # None
    /\ Get(request.limit) \notin NotInts
    /\ IntLiterals[Get(request.limit)] < MIN_LIMIT

(* C11: a nearest request with limit < 1 (zero or negative) is rejected with
   status 422, and find_nearest is not invoked for it; no nearest request
   reaches find_nearest with a limit below 1. *)
C11_LimitBelowOneRejected ==
    /\ LimitBelowOne =>
           /\ response.calls = <<>>
           /\ response.svc = None
           /\ Body = <<>>
           /\ Code = "422"
    /\ (request.kind = "nearest" /\ response.svc # None) =>
           Get(response.svc).limit >= MIN_LIMIT

\* q occurs in text as a run of consecutive characters, letter case ignored
ContainsIgnoringCase(text, q) ==
    \E k \in 0..(Len(text) - Len(q)) :
        SubSeq(PyLower(text), k + 1, k + Len(q)) = PyLower(q)

\* the stored record a name search for q (and status s, when given) is to return
NameMatch(r, q, s) ==
    /\ r.Applicant # None
    /\ ContainsIgnoringCase(Get(r.Applicant), q)
    /\ s # None => (r.Status # None /\ EqualIgnoringCase(Get(r.Status), Get(s)))

(* C12: a name search for q, with or without a status, returns exactly the
   stored records whose applicant name contains q as a substring, letter
   case ignored, and whose Status matches the status when one is given; also
   when q holds a '%' or a '_', and whether or not a record has coordinates.
   (Stated for requests without a status or with a non-empty one.) *)
C12_NameSearchExact ==
    (request.kind = "name" /\ request.q # None /\ dbState = "ok"
        /\ (request.status # None => Get(request.status) # <<>>)) =>
        /\ Code = "200"
        /\ \A i \in 1..Len(Body) :
               IsTableRow(Body[i]) /\ NameMatch(Body[i], Get(request.q), request.status)
        /\ \A i \in 1..Len(table) :
               NameMatch(table[i], Get(request.q), request.status) =>
                   \E j \in 1..Len(Body) : Body[j].locationid = table[i].locationid
        /\ \A i, j \in 1..Len(Body) : i # j => Body[i].locationid # Body[j].locationid

\* the arguments of the call that are absent
AbsentArguments ==
    {a \in {"lat1", "lon1", "lat2", "lon2"} : request[a] = None}

(* C13: calculate_distance returns positive infinity, and raises nothing,
   whenever at least one of its four arguments is absent: for each argument
   position alone and for every combination of absent arguments; with all
   four present and valid it returns a finite distance. *)
C13_AbsentCoordinateGivesInfinity ==
    request.kind = "distance" =>
        /\ Code = "return"
        /\ AbsentArguments # {} => Body = <<Inf>>
        /\ (AbsentArguments = {} /\ request.lat1 = Some(Num(0))
                /\ request.lat2 = Some(Num(0))
                /\ request.lon1 # Some(NaN) /\ request.lon2 # Some(NaN)) =>
               Body[1].fin

\* only the last argument is absent, the other three are valid
C13_Witness ==
    /\ request.kind = "distance"
    /\ AbsentArguments = {"lon2"}
    /\ request.lat1 = Some(Num(0))
    /\ request.lon1 = Some(Num(1))
    /\ request.lat2 = Some(Num(0))
    /\ Body = <<Inf>>

\* what find_nearest was called with: [lat, lon, status, limit]
Called == Get(response.svc)

\* the Distance Function from the reference point of the call to a record
DistanceTo(r) ==
    calculate_distance(Some(Called.lat), Some(Called.lon), r.Latitude, r.Longitude)

InBody(r) == \E j \in 1..Len(Body) : Body[j].locationid = r.locationid

\* find_nearest ran on the SQLite repository and returned
NearestOnStore ==
    /\ IsFindNearest
    /\ Answered
    /\ request.kind = "service" => request.repo = "sqlite"

(* C14: a nearest query returns the k closest eligible candidates: every
   result is one stored eligible record, no record twice, with distance_km
   equal to the Distance Function from the reference point to that record;
   and every eligible record left out is at least as far as every result. *)
C14_ClosestEligible ==
    NearestOnStore =>
        /\ \A i \in 1..Len(Body) :
               /\ IsTableRow(Body[i])
               /\ Eligible(Body[i], Called.status)
               /\ Body[i].distance_km = DistanceTo(Body[i])
        /\ \A i, j \in 1..Len(Body) : i # j => Body[i].locationid # Body[j].locationid
        /\ \A i \in 1..Len(table) :
               (Eligible(table[i], Called.status) /\ ~InBody(table[i])) =>
                   \A j \in 1..Len(Body) :
                       DistLe(Body[j].distance_km, DistanceTo(table[i]))

\* FoodFacilityService.find_nearest was called directly, on the SQLite
\* repository, with the keyword "all" in some letter case as its status
DirectAll ==
    /\ request.kind = "service"
    /\ request.repo = "sqlite"
    /\ request.status # None
    /\ PyLower(Get(request.status)) = all_kw

(* C15 as stated: FoodFacilityService.find_nearest itself resolves the
   status: called with "all" in any letter case it fetches its candidates
   with get_all_facilities_with_location, and with get_facilities_by_status
   only for any other value. *)
C15_ServiceResolvesAll ==
    /\ DirectAll =>
           response.calls = <<"find_nearest", "get_all_facilities_with_location">>
    /\ (request.kind = "service" /\ request.status # None /\ ~DirectAll) =>
           response.calls = <<"find_nearest", "get_facilities_by_status">>

(* C15 amended: the endpoint resolves the status before it calls the
   service: "all" in any letter case (and the empty string) becomes no
   status.  FoodFacilityService.find_nearest fetches with
   get_all_facilities_with_location only when its status is None, and with
   get_facilities_by_status for every other value, the keyword "all"
   included, which then selects the records whose Status is "all". *)
C15_EndpointResolvesAll ==
    /\ (request.kind = "nearest" /\ response.svc # None) =>
           /\ Called.status =
                  (IF request.status = None THEN Some(APPROVED)
                   ELSE IF Get(request.status) = <<>>
                           \/ PyLower(Get(request.status)) = all_kw THEN None
                   ELSE request.status)
           /\ Called.status = None =>
                  response.calls = <<"find_nearest", "get_all_facilities_with_location">>
           /\ Called.status # None =>
                  response.calls = <<"find_nearest", "get_facilities_by_status">>
    /\ request.kind = "service" =>
           /\ Called.status = request.status
           /\ request.status = None =>
                  response.calls = <<"find_nearest", "get_all_facilities_with_location">>
           /\ request.status # None =>
                  response.calls = <<"find_nearest", "get_facilities_by_status">>
    /\ (DirectAll /\ Code = "return") =>
           \A i \in 1..Len(Body) :
               /\ Body[i].Status # None
               /\ SqlLower(Get(Body[i].Status)) = all_kw

\* the service was called directly with "ALL" on a table with located
\* records: it asked for the records of status "ALL" and returned none
C15_Witness ==
    /\ DirectAll
    /\ Get(request.status) = ALL_kw
    /\ request.limit >= 1
    /\ EligibleCount(None) >= 1
    /\ response.calls = <<"find_nearest", "get_facilities_by_status">>
    /\ Code = "return"
    /\ Body = <<>>

\* the reference point of the call is a valid point
ValidReference == Called.lat = Num(0) /\ IsFinite(Called.lon)

(* C16: a stored record whose coordinates are present but outside the valid
   ranges, so that the Distance Function gives infinity for it, is in the
   output of no nearest query: every returned result has a finite
   distance_km. *)
C16_OutOfRangeExcluded ==
    (IsFindNearest /\ Answered /\ ValidReference) =>
        \A i \in 1..Len(Body) :
            /\ Body[i].distance_km.fin
            /\ DistanceTo(Body[i]).fin

\* two distances are the same float
SameDistance(a, b) == DistLe(a, b) /\ DistLe(b, a)

\* a candidate: a stored record the repository returns for the filter eff
\* (None: no filter)
Candidate(r, eff) == HasCoordinates(r) /\ (eff # None => StatusMatches(r, Get(eff)))

\* find_nearest ran on a repository and returned: the SQLite one, or the
\* injected one, which both return records in the order of the table
NearestReturned == IsFindNearest /\ Answered

(* C17: ties are broken stably: two results with equal distance_km stand in
   the order in which the repository returned them, and of two candidates
   with equal distance of which only one is in the result, it is the one the
   repository returned earlier. *)
C17_StableTieBreak ==
    NearestReturned =>
        /\ \A i, j \in 1..Len(Body) :
               (i < j /\ SameDistance(Body[i].distance_km, Body[j].distance_km)) =>
                   TablePos(Body[i].locationid) < TablePos(Body[j].locationid)
        /\ \A i \in 1..Len(table) : \A j \in 1..Len(Body) :
               (/\ Candidate(table[i], Called.status)
                /\ FoodFacilityBase_valid(table[i])
                /\ ~InBody(table[i])
                /\ SameDistance(DistanceTo(table[i]), Body[j].distance_km)) =>
                   TablePos(Body[j].locationid) < i

\* two results at the same distance, and a candidate at the distance of the
\* last result that the limit left out
C17_Witness ==
    /\ request.kind = "nearest"
    /\ Code = "200"
    /\ \E i, j \in 1..Len(Body) :
           /\ i < j
           /\ SameDistance(Body[i].distance_km, Body[j].distance_km)
    /\ Body[Len(Body)].distance_km.fin
    /\ \E i \in 1..Len(table) :
           /\ Candidate(table[i], Called.status)
           /\ ~InBody(table[i])
           /\ SameDistance(DistanceTo(table[i]), Body[Len(Body)].distance_km)

\* the response the request gets when it is handled with no other request
\* under way: the one of the atomic view
Alone(req) ==
    LET r == CASE req.kind = "nearest" -> NearestRoute(req)
               [] req.kind = "name" -> SearchNameRoute(req)
               [] req.kind = "street" -> SearchStreetRoute(req)
    IN  [code |-> r.code, body |-> r.body]

(* C18: repository reads are safe under concurrency: however the steps of
   concurrently handled requests interleave, each on its own connection or
   all on one shared connection, every request is answered as it would be
   when handled alone on the same table, and the rows a request works on are
   the rows its own query selected. *)
C18_ConcurrentReadsIsolated ==
    \A w \in Workers :
        /\ W(w).pc = "done" => W(w).resp = Alone(W(w).req)
        /\ W(w).pc = "build" =>
               W(w).rows = (IF dbState = "no_table" THEN <<>>
                            ELSE SelectFor(W(w).req, table))

\* on the shared connection another worker ran a query that selects other
\* rows between this worker's execute and fetchall, and this worker
\* answered with its own results
C18_Witness ==
    \E w, v \in Workers :
        /\ w # v
        /\ W(w).conn = Some("shared")
        /\ W(v).conn = Some("shared")
        /\ W(w).pc = "done"
        /\ W(w).overlap
        /\ W(w).resp.code = "200"
        /\ W(w).resp.body # <<>>
        /\ W(v).pc \in {"fetchall", "build", "finally", "done"}
        /\ SelectFor(W(v).req, table) # SelectFor(W(w).req, table)

\* the connection get_db opened for the request of worker w
Opened(w) == connections[w].open
ClosedOnce(w) == ~connections[w].open /\ connections[w].closes = 1

(* C19: every connection get_db opens for a request is closed exactly once,
   after the response of the request is determined, on every path (the
   endpoint returns, the endpoint raises, the query fails, the parameters
   are rejected); and no cursor or query of the request is asked of the
   connection after it is closed. *)
C19_ClosedExactlyOnce ==
    /\ [](\A w \in Workers :
            /\ connections[w].closes <= 1
            /\ ~connections[w].misused
            /\ Opened(w) => connections[w].closes = 0
            /\ connections[w].closes = 1 =>
                   W(w).pc = "done" /\ W(w).resp.code # "none"
            /\ (W(w).pc = "done" /\ W(w).conn = Some(w)) => ClosedOnce(w))
    /\ \A w \in Workers : Opened(w) ~> ClosedOnce(w)

\* the endpoint raised (a selected row failed validation), the request was
\* answered with status 500, and its connection is closed
C19_Witness ==
    \E w \in Workers :
        /\ W(w).pc = "done"
        /\ W(w).conn = Some(w)
        /\ dbState = "ok"
        /\ W(w).req.kind = "nearest"
        /\ W(w).resp.code = "500"
        /\ ClosedOnce(w)

====
